---------------------------- MODULE Spec2Model ----------------------------
(***************************************************************************)
(* json-c linkhash: an open-addressing hash table whose live entries are   *)
(* threaded on a doubly-linked list in insertion order.                    *)
(*                                                                         *)
(* linkhash.h gives the data layout (struct lh_entry, struct lh_table),    *)
(* the slot sentinels, the load factor, the iteration macros and the       *)
(* inline accessors.  The bodies of the extern functions live in           *)
(* linkhash.c; they are modelled here from the design document (sections   *)
(* 4.1 - 4.4, 6 and 7) and from the contracts documented in the header.    *)
(*                                                                         *)
(* Encoding.  Keys are the integers 0 .. NumKeys-1, values 1 .. NumVals.   *)
(* An entry pointer is the index of its slot in t->table; NULL is -1.      *)
(* A table is a record with the fields of struct lh_table; an operation    *)
(* is an operator from a table (and its arguments) to the new table and    *)
(* the return code.                                                        *)
(***************************************************************************)
EXTENDS Integers, Sequences, FiniteSets

VARIABLES
    t,      \* the table under test (struct lh_table)
    t2,     \* a second table fed the same calls (only SpecPair changes it)
    last,   \* the last call made: its name, arguments and result
    last2,  \* the result of the same call on t2 (SpecPair)
    hist,   \* keys in the order they were first inserted, while nothing was deleted
    abs,    \* reference contents: the sequence of <<key, value>> a linked map holds
    size0,  \* the size given to lh_table_new, while only inserts and lookups were
            \* made; 0 once a delete or an explicit resize was called
    free_fn, \* t->free_fn: whether lh_table_new was given a free callback
    alive,  \* FALSE once lh_table_free was called: the table is gone
    born,   \* the entries created so far, in the order they were created
    freed,  \* the entries the free callback was called with, in call order
    walk,   \* a lh_foreach_safe loop in progress (SpecWalk)
    probe   \* a probe loop in progress (SpecProbe)

\* The free-callback ledger, and the loops that run step by step.
life == <<free_fn, alive, born, freed>>

steps == <<walk, probe>>

vars == <<t, t2, last, last2, hist, abs, size0, free_fn, alive, born, freed,
          walk, probe>>

---------------------------------------------------------------------------
\* Bounds of the model.  MaxInitSize is the largest size given to
\* lh_table_new, MaxResize the largest given to an explicit lh_table_resize,
\* MaxSize the largest size a table may grow to, MaxBorn the number of entries
\* created in the life of a table whose free callback is followed (SpecLife).

NumKeys == 3
NumVals == 2
MaxHash == 1
MaxInitSize == 4
MaxSize == 8
MaxResize == 2
MaxBorn == 3

Keys == 0 .. NumKeys - 1
Vals == 1 .. NumVals
Hashes == 0 .. MaxHash

---------------------------------------------------------------------------
\* Constants of linkhash.h.

\* LH_LOAD_FACTOR 0.66, in hundredths: x / y > 0.66 is x * 100 > LH_LOAD_FACTOR * y.
\* Mutants: a load factor of 1.0, of 0.75 and of 0.33.
LH_LOAD_FACTOR_One == 10 * 10

LH_LOAD_FACTOR_Third == 3 * 11

LH_LOAD_FACTOR_ThreeQuarters == 3 * 25

LH_LOAD_FACTOR == 66

\* Sentinel key of a slot that was never occupied since creation or resize.
LH_EMPTY == -1

\* Mutant: a deleted slot is marked like a never-used one.
LH_FREED_Collapsed == LH_EMPTY

\* Sentinel key of a slot whose entry was deleted (a tombstone).
LH_FREED == -2

\* The null entry pointer / null value.
NULL == -1

---------------------------------------------------------------------------
\* struct lh_entry and struct lh_table.

\* A slot that holds no entry.
BlankEntry(key) ==
    [k |-> key, k_is_constant |-> 0, v |-> NULL, next |-> NULL, prev |-> NULL]

\* key is a real key, not a sentinel.
Occupied(e) == e.k # LH_EMPTY /\ e.k # LH_FREED

\* The caller's equality callback: keys are compared by identity.
equal_fn(k1, k2) == k1 = k2

\* lh_table_new: size slots, all empty, no entries.
lh_table_new(size, hash_fn) ==
    [size    |-> size,
     count   |-> 0,
     head    |-> NULL,
     tail    |-> NULL,
     table   |-> [n \in 0 .. size - 1 |-> BlankEntry(LH_EMPTY)],
     hash_fn |-> hash_fn]

\* Mutant: the head accessor hands out the last entry.
lh_table_head_Tail(tb) == tb.tail

\* Inline accessors of linkhash.h.
lh_table_head(tb) == tb.head

\* Mutant: the hash handed out depends on the state of the table.
lh_get_hash_ByCount(tb, k) == tb.hash_fn[k] + tb.count

lh_get_hash(tb, k) == tb.hash_fn[k]

lh_entry_k(tb, e) == tb.table[e].k

\* Mutant: the flag is lost.
lh_entry_k_is_constant_Zero(tb, e) == 0

lh_entry_k_is_constant(tb, e) == tb.table[e].k_is_constant

\* Mutant: the value accessor hands out the key.
lh_entry_v_Key(tb, e) == tb.table[e].k

lh_entry_v(tb, e) == tb.table[e].v

\* Mutant: next reads the wrong link.
lh_entry_next_Prev(tb, e) == tb.table[e].prev

lh_entry_next(tb, e) == tb.table[e].next

\* Mutant: prev reads the wrong link.
lh_entry_prev_Next(tb, e) == tb.table[e].next

lh_entry_prev(tb, e) == tb.table[e].prev

lh_table_length(tb) == tb.count

\* lh_foreach: the entries visited from the head by next.  A well-formed list
\* has at most size entries; a walk that has not ended after size + 1 entries
\* is cut there (the C loop would not terminate).
RECURSIVE ForeachFrom(_, _, _)
ForeachFrom(tb, entry, fuel) ==
    IF entry = NULL \/ fuel = 0
    THEN <<>>
    ELSE <<entry>> \o ForeachFrom(tb, lh_entry_next(tb, entry), fuel - 1)

lh_foreach(tb) == ForeachFrom(tb, lh_table_head(tb), tb.size + 1)

\* What a caller sees while iterating: keys, and key/value pairs, head to tail.
KeysOf(tb) ==
    LET w == lh_foreach(tb) IN [i \in 1 .. Len(w) |-> lh_entry_k(tb, w[i])]

PairsOf(tb) ==
    LET w == lh_foreach(tb)
    IN  [i \in 1 .. Len(w) |-> <<lh_entry_k(tb, w[i]), lh_entry_v(tb, w[i])>>]

---------------------------------------------------------------------------
\* Section 4.1: probing.

\* Lookup probe from slot n: an empty slot ends it (absent), an occupied slot
\* with an equal key is the result, anything else (a tombstone, another key)
\* is stepped over.  After size slots every slot was visited: absent.
RECURSIVE LookupProbe(_, _, _, _)
LookupProbe(tb, k, n, visited) ==
    IF visited = tb.size THEN NULL
    ELSE IF tb.table[n].k = LH_EMPTY THEN NULL
    ELSE IF tb.table[n].k # LH_FREED /\ equal_fn(tb.table[n].k, k) THEN n
    ELSE LookupProbe(tb, k, (n + 1) % tb.size, visited + 1)

lh_table_lookup_entry_w_hash(tb, k, h) == LookupProbe(tb, k, h % tb.size, 0)

lh_table_lookup_entry(tb, k) ==
    lh_table_lookup_entry_w_hash(tb, k, lh_get_hash(tb, k))

\* lh_table_lookup_ex: whether k is there (a json_bool); *v gets the value of
\* the entry found, or NULL.
lh_table_lookup_ex(tb, k) ==
    LET e == lh_table_lookup_entry(tb, k)
    IN  IF e # NULL
        THEN [found |-> 1, v |-> lh_entry_v(tb, e)]
        ELSE [found |-> 0, v |-> NULL]

\* Mutant: the insert probe never compares keys, it takes the first free slot.
RECURSIVE InsertProbe_NoMatch(_, _, _, _, _)
InsertProbe_NoMatch(tb, k, n, visited, home) ==
    IF visited = tb.size THEN [found |-> NULL, home |-> NULL]
    ELSE IF tb.table[n].k = LH_EMPTY \/ tb.table[n].k = LH_FREED
         THEN [found |-> NULL, home |-> n]
    ELSE InsertProbe_NoMatch(tb, k, (n + 1) % tb.size, visited + 1, home)

\* Insertion target: probe as a lookup does, remembering the first empty or
\* tombstoned slot on the way.  found is the slot of an equal key (or NULL),
\* home the first empty-or-tombstoned slot met (or NULL).
RECURSIVE InsertProbe(_, _, _, _, _)
InsertProbe(tb, k, n, visited, home) ==
    IF visited = tb.size THEN [found |-> NULL, home |-> home]
    ELSE IF tb.table[n].k = LH_EMPTY
         THEN [found |-> NULL, home |-> IF home = NULL THEN n ELSE home]
    ELSE IF tb.table[n].k = LH_FREED
         THEN InsertProbe(tb, k, (n + 1) % tb.size, visited + 1,
                          IF home = NULL THEN n ELSE home)
    ELSE IF equal_fn(tb.table[n].k, k)
         THEN [found |-> n, home |-> home]
    ELSE InsertProbe(tb, k, (n + 1) % tb.size, visited + 1, home)

\* Section 4.3: a new entry in slot n is appended at the tail of the list.
AppendAt(tb, n, k, v, opts) ==
    LET e   == [k |-> k, k_is_constant |-> opts, v |-> v,
                next |-> NULL, prev |-> tb.tail]
        tab == IF tb.tail = NULL
               THEN [tb.table EXCEPT ![n] = e]
               ELSE [tb.table EXCEPT ![n] = e, ![tb.tail].next = n]
    IN  [tb EXCEPT !.table = tab,
                   !.head  = IF tb.head = NULL THEN n ELSE tb.head,
                   !.tail  = n,
                   !.count = tb.count + 1]

---------------------------------------------------------------------------
\* Section 4.2: resize.

\* Move the entries of old, from entry e on in list order, into new.
RECURSIVE Rehash(_, _, _)
Rehash(old, e, new) ==
    IF e = NULL THEN [t |-> new, rc |-> 0]
    ELSE LET k == lh_entry_k(old, e)
             p == InsertProbe(new, k, lh_get_hash(old, k) % new.size, 0, NULL)
         IN  IF p.home = NULL
             THEN [t |-> new, rc |-> -1]
             ELSE Rehash(old, lh_entry_next(old, e),
                         AppendAt(new, p.home, k, lh_entry_v(old, e),
                                  lh_entry_k_is_constant(old, e)))

\* Mutant: new_size is not validated.
lh_table_resize_NoCheck(tb, new_size, alloc) ==
    IF ~alloc THEN [t |-> tb, rc |-> -1]
    ELSE LET r == Rehash(tb, lh_table_head(tb), lh_table_new(new_size, tb.hash_fn))
         IN  IF r.rc = 0 THEN r ELSE [t |-> tb, rc |-> -1]

\* lh_table_resize: new_size must be positive; alloc tells whether the new
\* slot array could be allocated.  The entries are placed in list order by the
\* probe of section 4.1; when one finds no slot (new_size is below the count)
\* the probe is exhausted, which section 7 makes a failure.  On failure the
\* table is as before.
lh_table_resize(tb, new_size, alloc) ==
    IF new_size <= 0 \/ ~alloc THEN [t |-> tb, rc |-> -1]
    ELSE LET r == Rehash(tb, lh_table_head(tb), lh_table_new(new_size, tb.hash_fn))
         IN  IF r.rc = 0 THEN r ELSE [t |-> tb, rc |-> -1]

\* The growth policy: doubling.
GrowSize(size) == 2 * size

\* An insert into a table of this count and size must grow it first.
NeedsGrow(count, size) == (count + 1) * 100 > LH_LOAD_FACTOR * size

---------------------------------------------------------------------------
\* Insert, delete.

\* lh_table_insert_w_hash: grow first when the load factor asks for it (a
\* failed growth fails the insert, the table is as the resize left it), then overwrite
\* the value of an equal key in place or append a new entry in the first empty
\* or tombstoned slot of the probe.  opts is 1 for a constant key, else 0.

lh_table_insert_w_hash(tb, k, v, h, opts, alloc) ==
    LET g == IF NeedsGrow(tb.count, tb.size)
             THEN lh_table_resize(tb, GrowSize(tb.size), alloc)
             ELSE [t |-> tb, rc |-> 0]
    IN  IF g.rc # 0 THEN [t |-> g.t, rc |-> -1]
        ELSE LET p == InsertProbe(g.t, k, h % g.t.size, 0, NULL)
             IN  IF p.found # NULL
                 THEN [t |-> [g.t EXCEPT !.table[p.found].v = v], rc |-> 0]
                 ELSE IF p.home = NULL
                 THEN [t |-> g.t, rc |-> -1]
                 ELSE [t |-> AppendAt(g.t, p.home, k, v, opts), rc |-> 0]

lh_table_insert(tb, k, v, alloc) ==
    lh_table_insert_w_hash(tb, k, v, lh_get_hash(tb, k), 0, alloc)

\* lh_table_delete_entry: splice e out of the list, leave a tombstone.
lh_table_delete_entry(tb, e) ==
    IF e = NULL \/ ~Occupied(tb.table[e]) THEN [t |-> tb, rc |-> -1]
    ELSE LET nx   == lh_entry_next(tb, e)
             pv   == lh_entry_prev(tb, e)
             tab0 == [tb.table EXCEPT ![e] = BlankEntry(LH_FREED)]
             tab1 == IF pv = NULL THEN tab0 ELSE [tab0 EXCEPT ![pv].next = nx]
             tab2 == IF nx = NULL THEN tab1 ELSE [tab1 EXCEPT ![nx].prev = pv]
         IN  [t  |-> [tb EXCEPT !.table = tab2,
                                !.head  = IF tb.head = e THEN nx ELSE tb.head,
                                !.tail  = IF tb.tail = e THEN pv ELSE tb.tail,
                                !.count = tb.count - 1],
              rc |-> 0]

\* lh_table_delete: look the key up; not found is -1.
lh_table_delete(tb, k) ==
    LET e == lh_table_lookup_entry(tb, k)
    IN  IF e = NULL THEN [t |-> tb, rc |-> -1]
        ELSE lh_table_delete_entry(tb, e)

---------------------------------------------------------------------------
\* The reference contents, kept beside the table.

RECURSIVE SeqIndex(_, _, _)
\* The index of key k in a sequence of pairs, 0 when it is not there.
SeqIndex(s, k, i) ==
    IF i > Len(s) THEN 0
    ELSE IF s[i][1] = k THEN i
    ELSE SeqIndex(s, k, i + 1)

AbsKeys(s) == {s[i][1] : i \in 1 .. Len(s)}

AbsPut(s, k, v) ==
    LET i == SeqIndex(s, k, 1)
    IN  IF i = 0 THEN Append(s, <<k, v>>) ELSE [s EXCEPT ![i] = <<k, v>>]

AbsRemove(s, k) == SelectSeq(s, LAMBDA p : p[1] # k)

---------------------------------------------------------------------------
\* The calls a client makes.

\* The position of x in the sequence s, 0 when it is not there.
RECURSIVE Position(_, _, _)
Position(s, x, i) ==
    IF i > Len(s) THEN 0
    ELSE IF s[i] = x THEN i
    ELSE Position(s, x, i + 1)

\* A call: its name, its key (a resize: its new_size), its value, its result,
\* the length and key order of the table it was made on, and, when it is an
\* insert of the key that the call before it deleted, the position that key
\* had before the delete (0 otherwise).
NoCall ==
    [op |-> "new", k |-> NULL, v |-> NULL, rc |-> 0, n0 |-> 0, order0 |-> <<>>,
     was |-> 0]

Call(op, k, v, rc) ==
    [op |-> op, k |-> k, v |-> v, rc |-> rc,
     n0 |-> lh_table_length(t), order0 |-> KeysOf(t),
     was |-> IF op = "insert" /\ last.op = "delete" /\ last.rc = 0 /\ last.k = k
             THEN Position(last.order0, k, 1)
             ELSE 0]

\* No loop is in progress.
NoWalk == [pc |-> "idle", entry |-> NULL, tmp |-> NULL, seen |-> <<>>, start |-> <<>>]

NoProbe == [pc |-> "idle", op |-> "none", k |-> NULL, v |-> NULL, n |-> NULL,
            visited |-> 0, home |-> NULL, result |-> NULL]

\* A table without a free callback, not freed; nothing runs step by step.
NoLife ==
    /\ free_fn = FALSE
    /\ alive = TRUE
    /\ born = <<>>
    /\ freed = <<>>

NoSteps ==
    /\ walk = NoWalk
    /\ probe = NoProbe

\* The hash callbacks tried.  Keys are only ever compared for equality, so
\* every hash function is a renaming of the keys away from a monotone one.
HashFns == {f \in [Keys -> Hashes] : \A i, j \in Keys : i <= j => f[i] <= f[j]}

Init ==
    /\ \E size \in 1 .. MaxInitSize, hash_fn \in HashFns :
           /\ t = lh_table_new(size, hash_fn)
           /\ t2 = lh_table_new(1, hash_fn)
           /\ size0 = size
    /\ last = NoCall
    /\ last2 = NoCall
    /\ hist = <<>>
    /\ abs = <<>>
    /\ NoLife
    /\ NoSteps

\* An insert that has to grow is made only while the grown table stays within
\* the model's bound on sizes.
FitsBound(tb) == NeedsGrow(tb.count, tb.size) => GrowSize(tb.size) <= MaxSize

Insert(k, v, alloc) ==
    /\ FitsBound(t)
    /\ LET r == lh_table_insert(t, k, v, alloc)
       IN  /\ t' = r.t
           /\ last' = Call("insert", k, v, r.rc)
           /\ abs' = IF r.rc = 0 THEN AbsPut(abs, k, v) ELSE abs
           /\ hist' = IF r.rc = 0 /\ size0 > 0 /\ k \notin AbsKeys(abs)
                      THEN Append(hist, k) ELSE hist
    /\ UNCHANGED <<t2, last2, size0, life, steps>>

Delete(k) ==
    /\ LET r == lh_table_delete(t, k)
       IN  /\ t' = r.t
           /\ last' = Call("delete", k, NULL, r.rc)
           /\ abs' = IF r.rc = 0 THEN AbsRemove(abs, k) ELSE abs
    /\ hist' = <<>>
    /\ size0' = 0
    /\ UNCHANGED <<t2, last2, life, steps>>

Lookup(k) ==
    /\ last' = Call("lookup", k, NULL, lh_table_lookup_entry(t, k))
    /\ UNCHANGED <<t, t2, last2, hist, abs, size0, life, steps>>

Resize(new_size, alloc) ==
    /\ LET r == lh_table_resize(t, new_size, alloc)
       IN  /\ t' = r.t
           /\ last' = Call("resize", new_size, NULL, r.rc)
    /\ hist' = <<>>
    /\ size0' = 0
    /\ UNCHANGED <<t2, last2, abs, life, steps>>

Next ==
    \/ \E k \in Keys, v \in Vals, alloc \in BOOLEAN : Insert(k, v, alloc)
    \/ \E k \in Keys : Delete(k)
    \/ \E k \in Keys : Lookup(k)
    \/ \E n \in -1 .. MaxResize, alloc \in BOOLEAN : Resize(n, alloc)

Spec == Init /\ [][Next]_vars

---------------------------------------------------------------------------
\* Two tables that are fed the same calls.  The first is created with any
\* size, grows as its inserts require and gets explicit resizes between the
\* calls.  The second is created with MaxSize slots, which is room for every
\* key below the load factor: it is never resized.

\* What a lookup reports to its caller: whether the key is there, and the key
\* and value of the entry found.
Found(tb, e) ==
    IF e = NULL THEN <<FALSE, NULL, NULL>>
    ELSE <<TRUE, lh_entry_k(tb, e), lh_entry_v(tb, e)>>

\* A common call and its result on one of the two tables.
PairCall(op, k, v, rc) == [NoCall EXCEPT !.op = op, !.k = k, !.v = v, !.rc = rc]

InitPair ==
    /\ \E size \in 1 .. MaxInitSize, hash_fn \in HashFns :
           /\ t = lh_table_new(size, hash_fn)
           /\ t2 = lh_table_new(MaxSize, hash_fn)
    /\ size0 = 0
    /\ last = NoCall
    /\ last2 = NoCall
    /\ hist = <<>>
    /\ abs = <<>>
    /\ NoLife
    /\ NoSteps

PairInsert(k, v) ==
    /\ FitsBound(t)
    /\ FitsBound(t2)
    /\ LET r  == lh_table_insert(t, k, v, TRUE)
           r2 == lh_table_insert(t2, k, v, TRUE)
       IN  /\ t' = r.t
           /\ t2' = r2.t
           /\ last' = PairCall("insert", k, v, r.rc)
           /\ last2' = PairCall("insert", k, v, r2.rc)
           /\ abs' = IF r.rc = 0 THEN AbsPut(abs, k, v) ELSE abs
    /\ UNCHANGED <<hist, size0, life, steps>>

PairDelete(k) ==
    /\ LET r  == lh_table_delete(t, k)
           r2 == lh_table_delete(t2, k)
       IN  /\ t' = r.t
           /\ t2' = r2.t
           /\ last' = PairCall("delete", k, NULL, r.rc)
           /\ last2' = PairCall("delete", k, NULL, r2.rc)
           /\ abs' = IF r.rc = 0 THEN AbsRemove(abs, k) ELSE abs
    /\ UNCHANGED <<hist, size0, life, steps>>

PairLookup(k) ==
    /\ LET e  == lh_table_lookup_entry(t, k)
           e2 == lh_table_lookup_entry(t2, k)
       IN  /\ last' = PairCall("lookup", k, Found(t, e)[3], e)
           /\ last2' = PairCall("lookup", k, Found(t2, e2)[3], e2)
    /\ UNCHANGED <<t, t2, hist, abs, size0, life, steps>>

\* An explicit resize of the first table only: not one of the common calls.
ResizeFirst(new_size) ==
    /\ t' = lh_table_resize(t, new_size, TRUE).t
    /\ UNCHANGED <<t2, last, last2, hist, abs, size0, life, steps>>

NextPair ==
    \/ \E k \in Keys, v \in Vals : PairInsert(k, v)
    \/ \E k \in Keys : PairDelete(k)
    \/ \E k \in Keys : PairLookup(k)
    \/ \E n \in 1 .. MaxResize : ResizeFirst(n)

SpecPair == InitPair /\ [][NextPair]_vars

---------------------------------------------------------------------------
\* A client that keeps no record of the calls that change the table, and the
\* three lookup functions.  No call is made on a freed table or while a loop
\* that runs step by step is in progress.

Quiet == alive /\ walk.pc = "idle" /\ probe.pc = "idle"

InitPlain ==
    /\ \E size \in 1 .. MaxInitSize, hash_fn \in HashFns :
           /\ t = lh_table_new(size, hash_fn)
           /\ t2 = lh_table_new(1, hash_fn)
    /\ size0 = 0
    /\ last = NoCall
    /\ last2 = NoCall
    /\ hist = <<>>
    /\ abs = <<>>
    /\ NoLife
    /\ NoSteps

Put(k, v) ==
    /\ Quiet
    /\ FitsBound(t)
    /\ LET r == lh_table_insert(t, k, v, TRUE)
       IN  /\ t' = r.t
           /\ abs' = IF r.rc = 0 THEN AbsPut(abs, k, v) ELSE abs
    /\ last' = NoCall
    /\ UNCHANGED <<t2, last2, hist, size0, life, steps>>

Remove(k) ==
    /\ Quiet
    /\ LET r == lh_table_delete(t, k)
       IN  /\ t' = r.t
           /\ abs' = IF r.rc = 0 THEN AbsRemove(abs, k) ELSE abs
    /\ last' = NoCall
    /\ UNCHANGED <<t2, last2, hist, size0, life, steps>>

Rebuild(new_size) ==
    /\ Quiet
    /\ t' = lh_table_resize(t, new_size, TRUE).t
    /\ last' = NoCall
    /\ UNCHANGED <<t2, last2, hist, abs, size0, life, steps>>

\* The lookups: the entry found (or NULL) is the result; lh_table_lookup_ex
\* gives found and *v.
LookupEntry(k) ==
    /\ Quiet
    /\ last' = PairCall("lookup", k, NULL, lh_table_lookup_entry(t, k))
    /\ UNCHANGED <<t, t2, last2, hist, abs, size0, life, steps>>

LookupWHash(k) ==
    /\ Quiet
    /\ LET h == lh_get_hash(t, k)
       IN  last' = PairCall("lookup_w_hash", k, NULL,
                            lh_table_lookup_entry_w_hash(t, k, h))
    /\ UNCHANGED <<t, t2, last2, hist, abs, size0, life, steps>>

LookupEx(k) ==
    /\ Quiet
    /\ LET r == lh_table_lookup_ex(t, k)
       IN  last' = PairCall("lookup_ex", k, r.v, r.found)
    /\ UNCHANGED <<t, t2, last2, hist, abs, size0, life, steps>>

NextRead ==
    \/ \E k \in Keys, v \in Vals : Put(k, v)
    \/ \E k \in Keys : Remove(k)
    \/ \E n \in 1 .. MaxResize : Rebuild(n)
    \/ \E k \in Keys : LookupEntry(k)
    \/ \E k \in Keys : LookupWHash(k)
    \/ \E k \in Keys : LookupEx(k)

SpecRead == InitPlain /\ [][NextRead]_vars

---------------------------------------------------------------------------
\* lh_foreach_safe(t, entry, tmp), run step by step:
\*   for (entry = lh_table_head(t);
\*        entry && ((tmp = lh_entry_next(entry)) || 1);
\*        entry = tmp) body
\* The body records the key of the entry and may call lh_table_delete_entry
\* on it.  walk.start is what the table held when the loop began, walk.seen
\* the keys the body has met.

\* Mutant: the third clause of lh_foreach, which reads the link after the body.
ForeachSafeAdvance_Unsafe(tb, entry, tmp) == lh_entry_next(tb, entry)

\* The third clause of lh_foreach_safe: entry = tmp.  tb is the table as the
\* body left it.
ForeachSafeAdvance(tb, entry, tmp) == tmp

WalkBegin ==
    /\ Quiet
    /\ walk' = [pc |-> "test", entry |-> lh_table_head(t), tmp |-> NULL,
                seen |-> <<>>, start |-> [i \in 1 .. Len(abs) |-> abs[i][1]]]
    /\ last' = NoCall
    /\ UNCHANGED <<t, t2, last2, hist, abs, size0, life, probe>>

\* The loop condition: a null entry ends the loop, else the next entry is
\* captured in tmp before the body runs.
WalkTest ==
    /\ walk.pc = "test"
    /\ walk' = IF walk.entry = NULL
               THEN [walk EXCEPT !.pc = "done"]
               ELSE [walk EXCEPT !.pc = "body",
                                 !.tmp = lh_entry_next(t, walk.entry)]
    /\ UNCHANGED <<t, t2, last, last2, hist, abs, size0, life, probe>>

\* The body (with or without a delete of the current entry), then entry = tmp.
WalkBody(del) ==
    /\ walk.pc = "body"
    /\ LET k  == lh_entry_k(t, walk.entry)
           tb == IF del THEN lh_table_delete_entry(t, walk.entry).t ELSE t
       IN  /\ t' = tb
           /\ abs' = IF del THEN AbsRemove(abs, k) ELSE abs
           /\ walk' = [walk EXCEPT
                          !.pc = "test",
                          !.seen = Append(@, k),
                          !.entry = ForeachSafeAdvance(tb, walk.entry, walk.tmp)]
    /\ UNCHANGED <<t2, last, last2, hist, size0, life, probe>>

NextWalk ==
    \/ \E k \in Keys, v \in Vals : Put(k, v)
    \/ \E k \in Keys : Remove(k)
    \/ \E n \in 1 .. MaxResize : Rebuild(n)
    \/ WalkBegin
    \/ WalkTest
    \/ \E del \in BOOLEAN : WalkBody(del)

\* The loop is ordinary sequential code: once begun, each of its steps is taken.
SpecWalk ==
    /\ InitPlain
    /\ [][NextWalk]_vars
    /\ WF_vars(WalkTest)
    /\ WF_vars(\E del \in BOOLEAN : WalkBody(del))

---------------------------------------------------------------------------
\* The probe loops of section 4.1, run slot by slot.  probe.n is the slot
\* looked at, probe.visited the number of slots passed, probe.home the first
\* empty or tombstoned slot an insert has met, probe.result what the call
\* returns: the entry found by a lookup (or NULL), the result of an insert.

\* Mutant: the loop does not count the slots it has passed.
CountVisit_Forgot(visited) == visited

\* One more slot was passed.
CountVisit(visited) == visited + 1

\* lh_table_lookup_entry_w_hash(t, k, lh_get_hash(t, k)) begins.
ProbeBeginLookup(k) ==
    /\ Quiet
    /\ probe' = [NoProbe EXCEPT !.pc = "run", !.op = "lookup", !.k = k,
                                !.n = lh_get_hash(t, k) % t.size]
    /\ last' = NoCall
    /\ UNCHANGED <<t, t2, last2, hist, abs, size0, life, walk>>

\* One turn of the lookup loop.
LookupStep ==
    /\ probe.pc = "run"
    /\ probe.op = "lookup"
    /\ probe' =
           IF probe.visited = t.size
           THEN [probe EXCEPT !.pc = "done", !.result = NULL]
           ELSE IF t.table[probe.n].k = LH_EMPTY
           THEN [probe EXCEPT !.pc = "done", !.result = NULL]
           ELSE IF t.table[probe.n].k # LH_FREED /\ equal_fn(t.table[probe.n].k, probe.k)
           THEN [probe EXCEPT !.pc = "done", !.result = probe.n]
           ELSE [probe EXCEPT !.n = (probe.n + 1) % t.size,
                              !.visited = CountVisit(probe.visited)]
    /\ UNCHANGED <<t, t2, last, last2, hist, abs, size0, life, walk>>

\* lh_table_insert(t, k, v) begins: the table is grown when the load factor
\* asks for it; when that fails the insert has failed, else the probe starts
\* in the table as it is now.
ProbeBeginInsert(k, v, alloc) ==
    /\ Quiet
    /\ FitsBound(t)
    /\ LET g == IF NeedsGrow(t.count, t.size)
                THEN lh_table_resize(t, GrowSize(t.size), alloc)
                ELSE [t |-> t, rc |-> 0]
       IN  /\ t' = g.t
           /\ probe' = IF g.rc # 0
                       THEN [NoProbe EXCEPT !.pc = "done", !.op = "insert",
                                            !.k = k, !.v = v, !.result = -1]
                       ELSE [NoProbe EXCEPT !.pc = "run", !.op = "insert",
                                            !.k = k, !.v = v,
                                            !.n = lh_get_hash(t, k) % g.t.size]
    /\ last' = NoCall
    /\ UNCHANGED <<t2, last2, hist, abs, size0, life, walk>>

\* The insert ends: the value of the equal key found in slot found is
\* replaced, or a new entry goes to slot home, or there is no slot for it.
InsertEnd(found, home) ==
    IF found # NULL
    THEN /\ t' = [t EXCEPT !.table[found].v = probe.v]
         /\ abs' = AbsPut(abs, probe.k, probe.v)
         /\ probe' = [probe EXCEPT !.pc = "done", !.home = home, !.result = 0]
    ELSE IF home = NULL
    THEN /\ UNCHANGED <<t, abs>>
         /\ probe' = [probe EXCEPT !.pc = "done", !.result = -1]
    ELSE /\ t' = AppendAt(t, home, probe.k, probe.v, 0)
         /\ abs' = AbsPut(abs, probe.k, probe.v)
         /\ probe' = [probe EXCEPT !.pc = "done", !.home = home, !.result = 0]

\* One turn of the loop that selects the insertion target.
InsertStep ==
    /\ probe.pc = "run"
    /\ probe.op = "insert"
    /\ LET first == IF probe.home = NULL THEN probe.n ELSE probe.home
       IN  IF probe.visited = t.size
           THEN InsertEnd(NULL, probe.home)
           ELSE IF t.table[probe.n].k = LH_EMPTY
           THEN InsertEnd(NULL, first)
           ELSE IF t.table[probe.n].k = LH_FREED
           THEN /\ probe' = [probe EXCEPT !.n = (probe.n + 1) % t.size,
                                          !.visited = CountVisit(probe.visited),
                                          !.home = first]
                /\ UNCHANGED <<t, abs>>
           ELSE IF equal_fn(t.table[probe.n].k, probe.k)
           THEN InsertEnd(probe.n, probe.home)
           ELSE /\ probe' = [probe EXCEPT !.n = (probe.n + 1) % t.size,
                                          !.visited = CountVisit(probe.visited)]
                /\ UNCHANGED <<t, abs>>
    /\ UNCHANGED <<t2, last, last2, hist, size0, life, walk>>

NextProbe ==
    \/ \E k \in Keys, v \in Vals : Put(k, v)
    \/ \E k \in Keys : Remove(k)
    \/ \E n \in 1 .. MaxResize : Rebuild(n)
    \/ \E k \in Keys : ProbeBeginLookup(k)
    \/ LookupStep
    \/ \E k \in Keys, v \in Vals, alloc \in BOOLEAN : ProbeBeginInsert(k, v, alloc)
    \/ InsertStep

\* The loops are ordinary sequential code: once begun, each turn is taken.
SpecProbe ==
    /\ InitPlain
    /\ [][NextProbe]_vars
    /\ WF_vars(LookupStep)
    /\ WF_vars(InsertStep)

---------------------------------------------------------------------------
\* The life of a table with its free callback: entries are created by
\* lh_table_insert_w_hash with or without the constant-key option, deleted,
\* moved by resizes, and at last the table is freed.

\* What the ledger keeps of the entry the free callback is handed: its key
\* and its constant-key flag.
CallbackArg(tb, e) ==
    [k |-> lh_entry_k(tb, e),
     k_is_constant |-> lh_entry_k_is_constant(tb, e)]

\* The callbacks lh_table_delete_entry makes for entry e: one, when a free
\* callback was supplied.
DeleteCallbacks(tb, e, fn) == IF fn THEN <<CallbackArg(tb, e)>> ELSE <<>>

\* lh_table_free: the callbacks made, one for each entry of the list from the
\* head on, when a free callback was supplied.
lh_table_free(tb, fn) ==
    LET w == lh_foreach(tb)
    IN  IF fn THEN [i \in 1 .. Len(w) |-> CallbackArg(tb, w[i])] ELSE <<>>

InitLife ==
    /\ \E size \in 1 .. MaxInitSize, hash_fn \in HashFns :
           /\ t = lh_table_new(size, hash_fn)
           /\ t2 = lh_table_new(1, hash_fn)
    /\ free_fn \in BOOLEAN
    /\ alive = TRUE
    /\ born = <<>>
    /\ freed = <<>>
    /\ size0 = 0
    /\ last = NoCall
    /\ last2 = NoCall
    /\ hist = <<>>
    /\ abs = <<>>
    /\ NoSteps

\* lh_table_insert_w_hash with the hash from lh_get_hash; opts is 1 with the
\* constant-key option.  At most MaxBorn entries are created.
LifeInsert(k, v, opts) ==
    /\ alive
    /\ FitsBound(t)
    /\ k \notin AbsKeys(abs) => Len(born) < MaxBorn
    /\ LET r == lh_table_insert_w_hash(t, k, v, lh_get_hash(t, k), opts, TRUE)
       IN  /\ t' = r.t
           /\ abs' = IF r.rc = 0 THEN AbsPut(abs, k, v) ELSE abs
           /\ born' = IF r.rc = 0 /\ k \notin AbsKeys(abs)
                      THEN Append(born, [k |-> k, k_is_constant |-> opts])
                      ELSE born
    /\ UNCHANGED <<t2, last, last2, hist, size0, free_fn, alive, freed, steps>>

LifeDelete(k) ==
    /\ alive
    /\ LET e == lh_table_lookup_entry(t, k)
           r == lh_table_delete(t, k)
       IN  /\ t' = r.t
           /\ abs' = IF r.rc = 0 THEN AbsRemove(abs, k) ELSE abs
           /\ freed' = IF r.rc = 0
                       THEN freed \o DeleteCallbacks(t, e, free_fn)
                       ELSE freed
    /\ UNCHANGED <<t2, last, last2, hist, size0, free_fn, alive, born, steps>>

LifeResize(new_size) ==
    /\ alive
    /\ t' = lh_table_resize(t, new_size, TRUE).t
    /\ UNCHANGED <<t2, last, last2, hist, abs, size0, life, steps>>

\* lh_table_free: the callbacks, then the memory is released; the table must
\* not be used again (nothing of it is left to look at).
LifeFree ==
    /\ alive
    /\ alive' = FALSE
    /\ freed' = freed \o lh_table_free(t, free_fn)
    /\ t' = lh_table_new(1, t.hash_fn)
    /\ abs' = <<>>
    /\ UNCHANGED <<t2, last, last2, hist, size0, free_fn, born, steps>>

NextLife ==
    \/ \E k \in Keys, v \in Vals, opts \in {0, 1} : LifeInsert(k, v, opts)
    \/ \E k \in Keys : LifeDelete(k)
    \/ \E n \in 1 .. MaxResize : LifeResize(n)
    \/ LifeFree

SpecLife == InitLife /\ [][NextLife]_vars

---------------------------------------------------------------------------
\* Helpers of the properties.

\* The slots that hold a live entry.
OccupiedSlots(tb) == {n \in 0 .. tb.size - 1 : Occupied(tb.table[n])}

\* The slots a lookup of k would visit before it reaches slot e.
RECURSIVE ProbePath(_, _, _, _)
ProbePath(tb, n, e, visited) ==
    IF n = e \/ visited = tb.size THEN {}
    ELSE {n} \cup ProbePath(tb, (n + 1) % tb.size, e, visited + 1)

\* k is live in slot e and a lookup of k steps over a tombstone on its way there.
BehindTombstone(tb, k, e) ==
    /\ e # NULL
    /\ \E n \in ProbePath(tb, lh_get_hash(tb, k) % tb.size, e, 0) :
           tb.table[n].k = LH_FREED

\* The value the reference contents hold for key k, NULL when it is not there.
AbsGet(s, k) ==
    LET i == SeqIndex(s, k, 1) IN IF i = 0 THEN NULL ELSE s[i][2]

\* The records of key k in a ledger, how many there are, and the number of
\* entries that are live.
RecordsOf(s, k) == SelectSeq(s, LAMBDA r : r.k = k)

CountOf(s, k) == Len(RecordsOf(s, k))

LiveCount(a, tb) == IF a THEN lh_table_length(tb) ELSE 0

\* A sequence without the elements equal to k.
Without(s, k) == SelectSeq(s, LAMBDA x : x # k)

\* The entries visited from the tail by lh_entry_prev (cut like ForeachFrom).
RECURSIVE ForeachBackFrom(_, _, _)
ForeachBackFrom(tb, entry, fuel) ==
    IF entry = NULL \/ fuel = 0
    THEN <<>>
    ELSE <<entry>> \o ForeachBackFrom(tb, lh_entry_prev(tb, entry), fuel - 1)

Reverse(s) == [i \in 1 .. Len(s) |-> s[Len(s) + 1 - i]]

\* The slots that hold a tombstone.
Tombstones(tb) == {n \in 0 .. tb.size - 1 : tb.table[n].k = LH_FREED}

---------------------------------------------------------------------------
\* C1 - Order preservation: after any sequence of inserts of distinct keys and
\* no delete (automatic resizes or not), the walk from lh_table_head by
\* lh_entry_next yields exactly the inserted keys, each once, in the order
\* they were inserted.
C1_OrderPreserved == size0 > 0 => KeysOf(t) = hist

\* All keys were inserted, nothing was deleted, and the table grew on the way.
C1_Witness ==
    /\ size0 > 0
    /\ Len(hist) = NumKeys
    /\ t.size > size0
    /\ last.op = "insert"

\* C2 - Tombstone correctness: lh_table_lookup_entry(t, k) returns a live entry
\* whose key equals k exactly when k was inserted and not deleted since (a
\* tombstone on the probe sequence neither matches nor stops the probe), and
\* the Lookup call reports the same.
C2_TombstoneCorrect ==
    /\ \A k \in Keys :
           LET e == lh_table_lookup_entry(t, k)
           IN  IF k \in AbsKeys(abs)
               THEN /\ e # NULL
                    /\ Occupied(t.table[e])
                    /\ lh_entry_k(t, e) = k
               ELSE e = NULL
    /\ last.op = "lookup" => (last.rc # NULL <=> last.k \in AbsKeys(abs))

\* A lookup has just found a key that lives behind a tombstone.
C2_Witness ==
    /\ last.op = "lookup"
    /\ last.rc # NULL
    /\ BehindTombstone(t, last.k, last.rc)

\* C3 - Overwrite in place: an insert of a key that is live replaces the value
\* of its entry, and leaves the length and the key order (so the entry's
\* position) and every other entry's value as they were.
C3_OverwriteInPlace ==
    [][(/\ last'.op = "insert"
        /\ last'.rc = 0
        /\ last'.k \in AbsKeys(abs))
       => /\ lh_table_length(t') = lh_table_length(t)
          /\ KeysOf(t') = KeysOf(t)
          /\ \A i \in 1 .. Len(PairsOf(t)) :
                 PairsOf(t')[i][2] = IF PairsOf(t)[i][1] = last'.k
                                     THEN last'.v
                                     ELSE PairsOf(t)[i][2]]_vars

\* A key that is not the newest entry was inserted again with another value.
C3_Witness ==
    /\ last.op = "insert"
    /\ last.rc = 0
    /\ last.n0 = lh_table_length(t)
    /\ lh_table_length(t) >= 2
    /\ lh_entry_k(t, t.tail) # last.k
    /\ lh_entry_v(t, lh_table_lookup_entry(t, last.k)) = last.v

\* C4 - Key uniqueness: no two live entries hold equal keys.
C4_KeysUnique ==
    \A m, n \in OccupiedSlots(t) :
        equal_fn(t.table[m].k, t.table[n].k) => m = n

\* A live key that lies behind a tombstone on its probe sequence was inserted again.
C4_Witness ==
    /\ last.op = "insert"
    /\ last.rc = 0
    /\ SeqIndex([i \in 1 .. Len(last.order0) |-> <<last.order0[i], 0>>], last.k, 1) # 0
    /\ BehindTombstone(t, last.k, lh_table_lookup_entry(t, last.k))

\* C5 - Slot/list consistency: the ordering list holds each occupied slot
\* exactly once and nothing else, and lh_table_length is both the number of
\* occupied slots and the number of entries reachable from the head.
C5_SlotListConsistent ==
    LET w == lh_foreach(t)
    IN  /\ {w[i] : i \in 1 .. Len(w)} = OccupiedSlots(t)
        /\ \A i, j \in 1 .. Len(w) : w[i] = w[j] => i = j
        /\ lh_table_length(t) = Len(w)
        /\ lh_table_length(t) = Cardinality(OccupiedSlots(t))

\* Live entries beside a tombstone, after a delete and a later insert.
C5_Witness ==
    /\ lh_table_length(t) >= 2
    /\ \E n \in 0 .. t.size - 1 : t.table[n].k = LH_FREED
    /\ last.op = "insert"

\* C6 - Load factor: after a successful insert count / capacity <= 0.66 holds
\* with at most one entry of slack, and count <= capacity holds always.
C6_LoadFactor ==
    /\ (last.op = "insert" /\ last.rc = 0)
           => (lh_table_length(t) - 1) * 100 <= 66 * t.size
    /\ lh_table_length(t) <= t.size

\* An insert returned with the table above 0.66: the slack is used (the table
\* had been resized to a small size by the caller).
C6_Witness ==
    /\ last.op = "insert"
    /\ last.rc = 0
    /\ lh_table_length(t) * 100 > 66 * t.size

\* C7 - Resize trigger: a successful insert of a new key into a table with
\* (count + 1) / capacity > 0.66 grows the capacity; a table created with
\* capacity 4 that got three distinct keys (and no other call but lookups) has
\* a capacity above 4, length 3 and the keys in insertion order.
C7_ResizeTrigger ==
    /\ [][(/\ last'.op = "insert"
           /\ last'.rc = 0
           /\ last'.k \notin AbsKeys(abs)
           /\ (lh_table_length(t) + 1) * 100 > 66 * t.size)
          => t'.size > t.size]_vars
    /\ [](size0 = 4 /\ Len(hist) = 3
          => /\ t.size > 4
             /\ lh_table_length(t) = 3
             /\ KeysOf(t) = hist)

\* The third insert into a table created with capacity 4 has just returned.
C7_Witness ==
    /\ size0 = 4
    /\ Len(hist) = 3
    /\ last.op = "insert"
    /\ last.n0 = 2
    /\ t.size > 4

\* C8 - Resize transparency: two tables that get the same inserts, deletes and
\* lookups, one of them created smaller, grown on the way and explicitly
\* resized between the calls, the other never resized, agree after every step
\* on every lookup result, on the head-to-tail key/value sequence, on the
\* length and on the result of the call just made (a lookup's result is taken
\* when it is made: an entry pointer does not outlive a resize).
C8_ResizeTransparent ==
    /\ PairsOf(t) = PairsOf(t2)
    /\ lh_table_length(t) = lh_table_length(t2)
    /\ \A k \in Keys :
           Found(t, lh_table_lookup_entry(t, k)) = Found(t2, lh_table_lookup_entry(t2, k))
    /\ last.op = last2.op
    /\ last.op \in {"insert", "delete"} => last.rc = last2.rc
    /\ last.op = "lookup" => /\ (last.rc = NULL <=> last2.rc = NULL)
                              /\ last.v = last2.v

\* Both tables hold the same entries; the first was resized after a delete (it
\* has another size and no tombstone, the second has one), and a lookup then
\* found a key.
C8_Witness ==
    /\ t.size # t2.size
    /\ lh_table_length(t) >= 2
    /\ lh_table_length(t2) >= 2
    /\ \E n \in 0 .. t2.size - 1 : t2.table[n].k = LH_FREED
    /\ \A n \in 0 .. t.size - 1 : t.table[n].k # LH_FREED
    /\ last.op = "lookup"
    /\ last.rc # NULL

\* C9 - Delete/insert round trip: an insert of the key that the call before it
\* deleted makes a new entry at the tail, leaves the other entries in the
\* order they had before the delete, and brings the length back to its value
\* before the delete.
C9_DeleteInsertRoundTrip ==
    [][(/\ last.op = "delete"
        /\ last.rc = 0
        /\ last'.op = "insert"
        /\ last'.k = last.k
        /\ last'.rc = 0)
       => /\ t'.tail # NULL
          /\ lh_entry_k(t', t'.tail) = last.k
          /\ KeysOf(t') = Append(Without(last.order0, last.k), last.k)
          /\ lh_table_length(t') = last.n0]_vars

\* A key that was not the newest entry was deleted and inserted again: it is
\* the tail now, no longer at its old position.
C9_Witness ==
    /\ last.op = "insert"
    /\ last.rc = 0
    /\ last.was >= 1
    /\ last.was < lh_table_length(t)
    /\ lh_entry_k(t, t.tail) = last.k

\* C10 - Delete by key: lh_table_delete of a live key returns 0, lowers the
\* count by one, makes the key absent and keeps every other entry's key, value
\* and order; of an absent key it returns -1 and changes nothing; a second
\* delete of the key just deleted returns -1.
C10_DeleteByKey ==
    /\ [][last'.op = "delete"
          => IF last'.k \in AbsKeys(abs)
             THEN /\ last'.rc = 0
                  /\ lh_table_length(t') = lh_table_length(t) - 1
                  /\ lh_table_lookup_entry(t', last'.k) = NULL
                  /\ PairsOf(t') = SelectSeq(PairsOf(t), LAMBDA p : p[1] # last'.k)
             ELSE /\ last'.rc = -1
                  /\ t' = t]_vars
    /\ [][(/\ last.op = "delete"
           /\ last.rc = 0
           /\ last'.op = "delete"
           /\ last'.k = last.k)
          => last'.rc = -1]_vars

\* The middle one of three entries was deleted.
C10_Witness ==
    /\ last.op = "delete"
    /\ last.rc = 0
    /\ last.n0 = 3
    /\ last.order0[2] = last.k
    /\ lh_table_length(t) = 2

C12_SafeDeletingWalk ==
    /\ (walk.pc \in {"test", "body"}) ~> (walk.pc = "done")
    /\ [](walk.pc # "idle"
             => /\ Len(walk.seen) <= Len(walk.start)
                /\ walk.seen = SubSeq(walk.start, 1, Len(walk.seen)))
    /\ [](walk.pc = "done"
             => /\ walk.seen = walk.start
                /\ PairsOf(t) = abs
                /\ abs = <<>> => /\ lh_table_length(t) = 0
                                 /\ lh_table_head(t) = NULL)

\* The loop has ended on a table that held every key, and deleted them all.
C12_Witness ==
    /\ walk.pc = "done"
    /\ Len(walk.start) = NumKeys
    /\ walk.seen = walk.start
    /\ lh_table_length(t) = 0
    /\ Cardinality(Tombstones(t)) = NumKeys

\* C13 - Invalid resize: lh_table_resize with new_size <= 0 returns a negative
\* value and leaves the table (capacity, count, entries, order) as it was.
C13_InvalidResize ==
    [][(last'.op = "resize" /\ last'.k <= 0)
       => /\ last'.rc < 0
          /\ t'.size = t.size
          /\ lh_table_length(t') = lh_table_length(t)
          /\ PairsOf(t') = PairsOf(t)
          /\ t' = t]_vars

\* A resize to a negative size was refused on a table that holds every key.
C13_Witness ==
    /\ last.op = "resize"
    /\ last.k < 0
    /\ last.rc < 0
    /\ lh_table_length(t) = NumKeys

\* C14 - Probe termination: every lookup and every insert that has begun
\* ends, in every table state, after passing at most capacity slots; the
\* lookup then returns what lh_table_lookup_entry gives (NULL for an absent
\* key, also when no slot is empty); the insert has found what the insertion
\* probe of section 4.1 gives, fails exactly when it had to grow the table and
\* could not or when the probe gave neither an equal key nor a free slot, and
\* after a success the key is found with the value.
C14_ProbeTerminates ==
    /\ (probe.pc = "run") ~> (probe.pc = "done")
    /\ [](probe.visited <= t.size)
    /\ []((probe.pc = "done" /\ probe.op = "lookup")
             => /\ probe.result = lh_table_lookup_entry(t, probe.k)
                /\ probe.k \notin AbsKeys(abs) => probe.result = NULL
                /\ probe.k \in AbsKeys(abs) => probe.result # NULL)
    /\ []((probe.pc = "done" /\ probe.op = "insert")
             => /\ probe.result \in {0, -1}
                /\ PairsOf(t) = abs
                /\ probe.result = 0
                       => /\ lh_table_lookup_entry(t, probe.k) # NULL
                          /\ AbsGet(abs, probe.k) = probe.v)
    /\ [][(probe.pc = "run" /\ probe.op = "insert" /\ probe'.pc = "done")
          => LET p == InsertProbe(t, probe.k, lh_get_hash(t, probe.k) % t.size,
                                  0, NULL)
             IN  /\ probe'.result < 0 <=> (p.found = NULL /\ p.home = NULL)
                 /\ probe'.result = 0 => probe'.home = p.home
                 /\ p.found # NULL => t' = [t EXCEPT !.table[p.found].v = probe.v]
                 /\ (p.found = NULL /\ p.home # NULL)
                        => t' = AppendAt(t, p.home, probe.k, probe.v, 0)]_vars

\* A lookup of an absent key has ended after it went round a table without
\* an empty slot.
C14_Witness ==
    /\ probe.pc = "done"
    /\ probe.op = "lookup"
    /\ probe.result = NULL
    /\ probe.visited = t.size
    /\ t.size >= 2
    /\ \A n \in 0 .. t.size - 1 : t.table[n].k # LH_EMPTY

\* C15 - Free-callback discipline: with a free callback, every entry created
\* is handed to it exactly once: by the delete that removes it, or by
\* lh_table_free, which hands over the live entries in insertion order.  A call
\* makes as many callbacks as entries stop being live by it (a resize or an
\* insert: none), every callback is for a real key, and without a free
\* callback none is made.
C15_FreeCallback ==
    /\ [](free_fn
             => \A k \in Keys :
                    CountOf(born, k)
                        = CountOf(freed, k)
                          + (IF alive /\ k \in AbsKeys(abs) THEN 1 ELSE 0))
    /\ []((free_fn /\ ~alive) => Len(freed) = Len(born))
    /\ [](~free_fn => freed = <<>>)
    /\ [](\A i \in 1 .. Len(freed) : freed[i].k \in Keys)
    /\ [][free_fn
          => /\ Len(freed') >= Len(freed)
             /\ SubSeq(freed', 1, Len(freed)) = freed
             /\ Len(freed') - Len(freed)
                    = IF LiveCount(alive', t') < LiveCount(alive, t)
                      THEN LiveCount(alive, t) - LiveCount(alive', t')
                      ELSE 0
             /\ (alive' /\ Len(freed') > Len(freed))
                    => /\ freed'[Len(freed')].k \in AbsKeys(abs)
                       /\ freed'[Len(freed')].k \notin AbsKeys(abs')
             /\ (alive /\ ~alive')
                    => \A i \in 1 .. Len(abs) :
                           freed'[Len(freed) + i].k = abs[i][1]]_vars

\* A table was freed after an entry was deleted and its key inserted again:
\* the callback got that key twice, once at the delete and once, after the
\* older live entry, at the end.
C15_Witness ==
    /\ free_fn
    /\ ~alive
    /\ Len(freed) = 3
    /\ freed[1].k = freed[3].k
    /\ freed[2].k # freed[1].k

C17_FailedInsertAtomic ==
    [][(last'.op = "insert" /\ last'.rc # 0)
       => /\ last'.rc < 0
          /\ (lh_table_length(t) + 1) * 100 > 66 * t.size
          /\ t'.size = t.size
          /\ lh_table_length(t') = lh_table_length(t)
          /\ PairsOf(t') = PairsOf(t)
          /\ PairsOf(t') = abs'
          /\ \A k \in Keys : lh_table_lookup_entry(t', k) = lh_table_lookup_entry(t, k)
          /\ t' = t]_vars

\* The insert of a new key failed on a table that holds entries and a tombstone.
C17_Witness ==
    /\ last.op = "insert"
    /\ last.rc < 0
    /\ last.k \notin AbsKeys(abs)
    /\ lh_table_length(t) >= 2
    /\ Tombstones(t) # {}

\* C18 - Doubly-linked list well-formedness: head is null iff tail is null iff
\* the count is 0; the head has no prev, the tail no next; next and prev of
\* live entries are inverse to each other; the walk by next from the head has
\* count entries and ends in the tail, and the walk by prev from the tail is
\* its reverse.
C18_ListWellFormed ==
    LET w == lh_foreach(t)
        b == ForeachBackFrom(t, t.tail, t.size + 1)
    IN  /\ (lh_table_head(t) = NULL) <=> (t.tail = NULL)
        /\ (t.tail = NULL) <=> (lh_table_length(t) = 0)
        /\ lh_table_head(t) # NULL
               => /\ lh_entry_prev(t, lh_table_head(t)) = NULL
                  /\ lh_entry_next(t, t.tail) = NULL
        /\ \A e \in OccupiedSlots(t) :
               /\ lh_entry_next(t, e) # NULL
                      => lh_entry_prev(t, lh_entry_next(t, e)) = e
               /\ lh_entry_prev(t, e) # NULL
                      => lh_entry_next(t, lh_entry_prev(t, e)) = e
        /\ Len(w) = lh_table_length(t)
        /\ Len(w) > 0 => w[Len(w)] = t.tail
        /\ b = Reverse(w)

\* The head of three entries was deleted.
C18_Witness ==
    /\ last.op = "delete"
    /\ last.rc = 0
    /\ last.n0 = 3
    /\ last.order0[1] = last.k
    /\ lh_table_length(t) = 2
    /\ lh_entry_k(t, lh_table_head(t)) = last.order0[2]

\* C19 - Constant-key flag is stable: a live entry reports the flag that
\* lh_table_insert_w_hash was given when the entry was created (1 with the
\* constant-key option, else 0), whatever resizes, deletes of other entries
\* and value updates came since; and the free callback sees that flag: the
\* callbacks for a key carry the flags given to the entries created with it.
C19_ConstantKeyStable ==
    /\ alive
           => \A e \in OccupiedSlots(t) :
                  LET b == RecordsOf(born, lh_entry_k(t, e))
                  IN  /\ Len(b) > 0
                      /\ lh_entry_k_is_constant(t, e) = b[Len(b)].k_is_constant
                      /\ lh_entry_k_is_constant(t, e) \in {0, 1}
    /\ \A k \in Keys :
           LET f == RecordsOf(freed, k)
               b == RecordsOf(born, k)
           IN  /\ Len(f) <= Len(b)
               /\ \A i \in 1 .. Len(f) : f[i].k_is_constant = b[i].k_is_constant

\* A constant-key entry and another one are live in a table that was resized
\* after a delete (no tombstone is left), and the callback of that delete saw
\* a constant key.
C19_Witness ==
    /\ alive
    /\ free_fn
    /\ Len(freed) >= 1
    /\ freed[1].k_is_constant = 1
    /\ Tombstones(t) = {}
    /\ \E e1, e2 \in OccupiedSlots(t) :
           /\ lh_entry_k_is_constant(t, e1) = 1
           /\ lh_entry_k_is_constant(t, e2) = 0

=============================================================================
